---- MODULE Spec2Model ----
(***************************************************************************)
(* Rainflow cycle counting (ASTM E1049-85 section 5.4.4) as implemented in *)
(* rainflow.py: the reversals generator, the extract_cycles reduction over *)
(* a deque of pending points, and the count_cycles aggregation.            *)
(*                                                                         *)
(* Samples are integers.  Cycle weights are held as integer multiples of   *)
(* one half, so the weight 1.0 of a full cycle is 2 halves and the weight  *)
(* 0.5 of a one-half cycle is 1 half; sums of such weights are exact in    *)
(* binary floating point, so nothing is lost by the scaling.               *)
(***************************************************************************)
EXTENDS Integers, Sequences, FiniteSets

VARIABLES
    series,     \* the input iterable, as the sequence of its samples
    pc,         \* position of the computation
    idx,        \* position of the iterator `series` (next sample to read)
    x_last,     \* reversals: local x_last
    x,          \* reversals: local x
    d_last,     \* reversals: local d_last
    yielded,    \* the values the generator has yielded so far, in order
    yieldedAt,  \* the position in series of each yielded value
    points,     \* extract_cycles: the deque of pending points
    full,       \* extract_cycles: list of full-cycle ranges
    half,       \* extract_cycles: list of one-half-cycle ranges
    counts,     \* count_cycles: the returned list of <<magnitude, halves>>
    raised,     \* the exception that left the call, or "none"
    prev        \* the previous call's input and result (plateau comparison)

vars == <<series, pc, idx, x_last, x, d_last, yielded, yieldedAt,
          points, full, half, counts, raised, prev>>

----------------------------------------------------------------------------
(* Bounds of the model *)

MaxLen == 7
MaxVal == 2
PlateauMaxLen == 8
PlateauMaxVal == 2

Values == 0..MaxVal
PlateauValues == 0..PlateauMaxVal

SeqsUpTo(S, n) == UNION {[1..k -> S] : k \in 0..n}

\* the worked example series of ASTM E1049-85
Example == <<-2, 1, -3, 5, -1, 3, -4, 4, -2>>

Inputs == SeqsUpTo(Values, MaxLen) \cup {Example}
PlateauInputs == SeqsUpTo(PlateauValues, PlateauMaxLen)

----------------------------------------------------------------------------
(* Helpers *)

Abs(n) == IF n < 0 THEN -n ELSE n

Last(s) == s[Len(s)]

\* deque.pop(): the deque without its right-most element
Pop(s) == SubSeq(s, 1, Len(s) - 1)

\* deque.popleft(): the deque without its left-most element
PopLeft(s) == SubSeq(s, 2, Len(s))

\* the reversal test of the generator
IsReversal_le(dl, dn) == dl * dn <= 0
IsReversal(dl, dn) == dl * dn < 0

\* the difference carried to the next iteration of the generator loop
NextDLast_stale(dl, dn) == dl
NextDLast(dl, dn) == dn

\* the ranges formed from the three most recent points
RangeX(p) == Abs(p[Len(p) - 1] - p[Len(p)])
RangeY(p) == Abs(p[Len(p) - 2] - p[Len(p) - 1])

\* the test that ends the reduction until the next point is read
Waits_le(X, Y) == X <= Y
Waits(X, Y) == X < Y

\* the weights of a full and of a one-half cycle, in halves
FullWeight == 2
HalfWeight_full == 2
HalfWeight == 1

\* the deque after a full cycle: newest point kept, peak and valley of Y dropped
DiscardY_all(p) == SubSeq(p, 1, Len(p) - 3)
DiscardY_onePop(p) == Append(Pop(Pop(p)), Last(p))
DiscardY(p) == Append(Pop(Pop(Pop(p))), Last(p))

----------------------------------------------------------------------------
(* count_cycles: weighting, sorting and grouping *)

\* chain(full, half) with the weights attached
Chain(f, h) ==
    [i \in 1..Len(f) |-> <<f[i], FullWeight>>] \o
    [i \in 1..Len(h) |-> <<h[i], HalfWeight>>]

\* Python's ordering of the (value, weight) tuples
TupleLeq(a, b) == a[1] < b[1] \/ (a[1] = b[1] /\ a[2] <= b[2])

RECURSIVE InsertSorted(_, _)
InsertSorted(s, e) ==
    IF s = <<>> THEN <<e>>
    ELSE IF TupleLeq(e, s[1]) THEN <<e>> \o s
    ELSE <<s[1]>> \o InsertSorted(Tail(s), e)

RECURSIVE SortedFrom(_, _)
SortedFrom(acc, s) ==
    IF s = <<>> THEN acc ELSE SortedFrom(InsertSorted(acc, s[1]), Tail(s))

Sorted_unsorted(s) == s
Sorted(s) == SortedFrom(<<>>, s)

\* groupby on the magnitude, summing the weights of each run of equal keys
RECURSIVE GroupBy(_, _)
GroupBy(acc, s) ==
    IF s = <<>> THEN acc
    ELSE IF acc # <<>> /\ Last(acc)[1] = s[1][1]
         THEN GroupBy(Append(Pop(acc), <<s[1][1], Last(acc)[2] + s[1][2]>>), Tail(s))
         ELSE GroupBy(Append(acc, s[1]), Tail(s))

CountsOf(f, h) == GroupBy(<<>>, Sorted(Chain(f, h)))

----------------------------------------------------------------------------
(* Initial states *)

NoPrev == [run |-> 1, pos |-> 0, total |-> 0, series |-> <<>>]

InitWith(S) ==
    /\ series \in S
    /\ pc = "start"
    /\ idx = 1
    /\ x_last = 0 /\ x = 0 /\ d_last = 0
    /\ yielded = <<>> /\ yieldedAt = <<>>
    /\ points = <<>> /\ full = <<>> /\ half = <<>>
    /\ counts = <<>>
    /\ raised = "none"
    /\ prev = NoPrev

Init == InitWith(Inputs)
InitPlateau == InitWith(PlateauInputs)

----------------------------------------------------------------------------
(* reversals *)

\* the first two samples can be read
HasTwo(s) == Len(s) >= 2

\* Start under generator semantics in which the StopIteration of next()
\* leaves the generator as an error instead of ending it
Start_raises ==
    /\ pc = "start"
    /\ IF HasTwo(series)
       THEN /\ x_last' = series[1]
            /\ x' = series[2]
            /\ d_last' = series[2] - series[1]
            /\ idx' = 3
            /\ pc' = "scan"
            /\ raised' = "none"
       ELSE /\ idx' = Len(series) + 1
            /\ pc' = "done"
            /\ raised' = "InsufficientData"
            /\ UNCHANGED <<x_last, x, d_last>>
    /\ UNCHANGED <<series, yielded, yieldedAt, points, full, half, counts,
                   prev>>

\* First resumption of the generator: two samples are read.  When the
\* iterator runs out, next() raises StopIteration inside the generator
\* frame, which ends the generator; the consuming for loop sees an
\* exhausted generator and goes to its else clause.
Start ==
    /\ pc = "start"
    /\ IF HasTwo(series)
       THEN /\ x_last' = series[1]
            /\ x' = series[2]
            /\ d_last' = series[2] - series[1]
            /\ idx' = 3
            /\ pc' = "scan"
       ELSE /\ idx' = Len(series) + 1
            /\ pc' = "drain"
            /\ UNCHANGED <<x_last, x, d_last>>
    /\ UNCHANGED <<series, yielded, yieldedAt, points, full, half, counts,
                   raised, prev>>

\* One iteration of the generator loop in which x is yielded; the consumer
\* appends it to the deque.  The window slides when the generator resumes,
\* which nothing can observe in between.
ScanYield ==
    /\ pc = "scan"
    /\ idx <= Len(series)
    /\ IsReversal(d_last, series[idx] - x)
    /\ yielded' = Append(yielded, x)
    /\ yieldedAt' = Append(yieldedAt, idx - 1)
    /\ points' = Append(points, x)
    /\ x_last' = x
    /\ x' = series[idx]
    /\ d_last' = NextDLast(d_last, series[idx] - x)
    /\ idx' = idx + 1
    /\ pc' = "reduce"
    /\ UNCHANGED <<series, full, half, counts, raised, prev>>

\* One iteration of the generator loop in which nothing is yielded
ScanSkip ==
    /\ pc = "scan"
    /\ idx <= Len(series)
    /\ ~IsReversal(d_last, series[idx] - x)
    /\ x_last' = x
    /\ x' = series[idx]
    /\ d_last' = NextDLast(d_last, series[idx] - x)
    /\ idx' = idx + 1
    /\ UNCHANGED <<series, pc, yielded, yieldedAt, points, full, half, counts,
                   raised, prev>>

\* The series is exhausted: the generator ends, the for loop takes its else
ScanEnd ==
    /\ pc = "scan"
    /\ idx > Len(series)
    /\ pc' = "drain"
    /\ UNCHANGED <<series, idx, x_last, x, d_last, yielded, yieldedAt, points,
                   full, half, counts, raised, prev>>

----------------------------------------------------------------------------
(* extract_cycles *)

\* while len(points) >= 3 is false: read the next point
ReduceExit ==
    /\ pc = "reduce"
    /\ Len(points) < 3
    /\ pc' = "scan"
    /\ UNCHANGED <<series, idx, x_last, x, d_last, yielded, yieldedAt, points,
                   full, half, counts, raised, prev>>

\* X < Y: break
ReduceWait ==
    /\ pc = "reduce"
    /\ Len(points) >= 3
    /\ Waits(RangeX(points), RangeY(points))
    /\ pc' = "scan"
    /\ UNCHANGED <<series, idx, x_last, x, d_last, yielded, yieldedAt, points,
                   full, half, counts, raised, prev>>

\* Y contains the starting point: one-half cycle, first point discarded
ReduceHalf ==
    /\ pc = "reduce"
    /\ Len(points) = 3
    /\ ~Waits(RangeX(points), RangeY(points))
    /\ half' = Append(half, RangeY(points))
    /\ points' = PopLeft(points)
    /\ UNCHANGED <<series, pc, idx, x_last, x, d_last, yielded, yieldedAt,
                   full, counts, raised, prev>>

\* Y is one cycle: its peak and valley are discarded
ReduceFull ==
    /\ pc = "reduce"
    /\ Len(points) > 3
    /\ ~Waits(RangeX(points), RangeY(points))
    /\ full' = Append(full, RangeY(points))
    /\ points' = DiscardY(points)
    /\ UNCHANGED <<series, pc, idx, x_last, x, d_last, yielded, yieldedAt,
                   half, counts, raised, prev>>

\* DrainPop with the loop test len(points) > 0: points[-2] of a deque of
\* one point raises IndexError
DrainPop_any ==
    /\ pc = "drain"
    /\ Len(points) > 0
    /\ IF Len(points) > 1
       THEN /\ half' = Append(half, RangeX(points))
            /\ points' = Pop(points)
            /\ UNCHANGED <<pc, raised>>
       ELSE /\ pc' = "done"
            /\ raised' = "IndexError"
            /\ UNCHANGED <<half, points>>
    /\ UNCHANGED <<series, idx, x_last, x, d_last, yielded, yieldedAt,
                   full, counts, prev>>

\* the remaining ranges are one-half cycles
DrainPop ==
    /\ pc = "drain"
    /\ Len(points) > 1
    /\ half' = Append(half, RangeX(points))
    /\ points' = Pop(points)
    /\ UNCHANGED <<series, pc, idx, x_last, x, d_last, yielded, yieldedAt,
                   full, counts, raised, prev>>

\* return full, half
DrainReturn ==
    /\ pc = "drain"
    /\ Len(points) <= 1
    /\ pc' = "count"
    /\ UNCHANGED <<series, idx, x_last, x, d_last, yielded, yieldedAt, points,
                   full, half, counts, raised, prev>>

----------------------------------------------------------------------------
(* count_cycles *)

CountCycles ==
    /\ pc = "count"
    /\ counts' = CountsOf(full, half)
    /\ pc' = "done"
    /\ UNCHANGED <<series, idx, x_last, x, d_last, yielded, yieldedAt, points,
                   full, half, raised, prev>>

----------------------------------------------------------------------------
(* A second call, on the series with one sample repeated *)

\* series with a copy of its i-th sample inserted next to that sample
InsertCopy(s, i) == SubSeq(s, 1, i) \o <<s[i]>> \o SubSeq(s, i + 1, Len(s))

InsertPlateau ==
    /\ pc = "done"
    /\ prev.run = 1
    /\ \E i \in 1..Len(series) :
          /\ prev' = [run |-> 2, pos |-> i, total |-> Len(full) + Len(half),
                      series |-> series]
          /\ series' = InsertCopy(series, i)
    /\ pc' = "start"
    /\ idx' = 1
    /\ x_last' = 0 /\ x' = 0 /\ d_last' = 0
    /\ yielded' = <<>> /\ yieldedAt' = <<>>
    /\ points' = <<>> /\ full' = <<>> /\ half' = <<>>
    /\ counts' = <<>>
    /\ raised' = "none"

----------------------------------------------------------------------------

Next ==
    \/ Start
    \/ ScanYield
    \/ ScanSkip
    \/ ScanEnd
    \/ ReduceExit
    \/ ReduceWait
    \/ ReduceHalf
    \/ ReduceFull
    \/ DrainPop
    \/ DrainReturn
    \/ CountCycles

Spec == Init /\ [][Next]_vars

NextPlateau ==
    \/ Next
    \/ InsertPlateau

SpecPlateau == InitPlateau /\ [][NextPlateau]_vars

TypeOK ==
    /\ pc \in {"start", "scan", "reduce", "drain", "count", "done"}
    /\ idx \in 1..(Len(series) + 1)
    /\ Len(yielded) = Len(yieldedAt)
    /\ raised \in {"none", "InsufficientData", "IndexError"}
    /\ prev.run \in {1, 2}

----------------------------------------------------------------------------
(* Properties *)

Range(s) == {s[i] : i \in 1..Len(s)}

\* the generator is exhausted: every reversal of the series has been yielded
Exhausted == pc \in {"drain", "count", "done"}

\* extract_cycles has returned
Returned == pc \in {"count", "done"}

\* the number of reversals of the series, once the generator is exhausted
R == Len(yielded)

RECURSIVE SumHalves(_)
SumHalves(c) == IF c = <<>> THEN 0 ELSE c[1][2] + SumHalves(Tail(c))

Occurrences(s, m) == Cardinality({j \in 1..Len(s) : s[j] = m})

\* C1: when the series has at least 3 reversals, twice the number of full
\* cycles plus the number of one-half cycles returned by extract_cycles is
\* the number of reversals minus 1.
C1_RangeConservation ==
    (Returned /\ R >= 3) => 2 * Len(full) + Len(half) = R - 1

C1_Witness == pc = "done" /\ R >= 3 /\ full # <<>> /\ half # <<>>

\* C2 as stated: for a series of at least 2 samples the counts returned by
\* count_cycles sum to R - 1, that is to 2 * (R - 1) halves.
C2_SumIsRMinusOne ==
    (pc = "done" /\ Len(series) >= 2) => SumHalves(counts) = 2 * (R - 1)

\* C2 amended: for a series of at least 2 samples the counts returned by
\* count_cycles sum to (R - 1) / 2 when there is at least one reversal, that
\* is to R - 1 halves, and to 0 when there is none.
C2_SumIsHalfOfRMinusOne ==
    (pc = "done" /\ Len(series) >= 2) =>
        SumHalves(counts) = (IF R >= 1 THEN R - 1 ELSE 0)

C2_Witness == pc = "done" /\ R >= 4 /\ Len(counts) >= 2 /\ full # <<>>

\* C3: count_cycles returns pairs whose magnitudes are strictly ascending,
\* the magnitudes are exactly the ranges present in full or half, and each
\* count is 1.0 per entry of that magnitude in full plus 0.5 per entry of
\* that magnitude in half (2 halves and 1 half).
C3_CountsAggregate ==
    pc = "done" =>
        /\ \A i \in 1..(Len(counts) - 1) : counts[i][1] < counts[i + 1][1]
        /\ {counts[i][1] : i \in 1..Len(counts)} = Range(full) \cup Range(half)
        /\ \A i \in 1..Len(counts) :
              counts[i][2] = 2 * Occurrences(full, counts[i][1])
                             + Occurrences(half, counts[i][1])

C3_Witness ==
    /\ pc = "done"
    /\ Len(counts) >= 2
    /\ Len(counts) < Len(full) + Len(half)
    /\ \E i \in 1..(Len(full) + Len(half) - 1) :
          Chain(full, half)[i][1] > Chain(full, half)[i + 1][1]

\* the interior positions whose two adjacent differences have a negative product
TurningPoints(s) ==
    {i \in 2..(Len(s) - 1) : (s[i] - s[i - 1]) * (s[i + 1] - s[i]) < 0}

\* C4: for a series of at least 2 samples the generator yields, in series
\* order, exactly the interior samples whose differences to the previous and
\* to the next sample have a negative product; never the first sample, never
\* the last, never one with a zero difference to a neighbour.
C4_ReversalsExact ==
    (Exhausted /\ Len(series) >= 2) =>
        /\ Len(yieldedAt) = Len(yielded)
        /\ \A k \in 1..(Len(yieldedAt) - 1) : yieldedAt[k] < yieldedAt[k + 1]
        /\ Range(yieldedAt) = TurningPoints(series)
        /\ \A k \in 1..Len(yielded) : yielded[k] = series[yieldedAt[k]]
        /\ \A k \in 1..Len(yieldedAt) :
              /\ yieldedAt[k] # 1
              /\ yieldedAt[k] # Len(series)
              /\ series[yieldedAt[k]] # series[yieldedAt[k] - 1]
              /\ series[yieldedAt[k]] # series[yieldedAt[k] + 1]

C4_Witness ==
    /\ pc = "done"
    /\ R >= 2
    /\ \E i \in 2..(Len(series) - 1) :
          series[i] = series[i + 1] /\ series[i - 1] # series[i]

\* C5: with at least 3 points pending, the reduction stops and waits for the
\* next reversal iff X < Y; otherwise Y is recorded, as a one-half cycle
\* removing only the oldest point when exactly 3 points are pending, and as a
\* full cycle removing the two points bounding Y, the newest point and all
\* older points keeping their order, when more than 3 are pending.
C5_ReductionStep ==
    [][ (pc = "reduce" /\ Len(points) >= 3) =>
          LET X == Abs(points[Len(points) - 1] - points[Len(points)])
              Y == Abs(points[Len(points) - 2] - points[Len(points) - 1])
              n == Len(points)
          IN  /\ (pc' = "scan") <=> (X < Y)
              /\ (X < Y) => UNCHANGED <<points, full, half>>
              /\ (X >= Y /\ n = 3) =>
                    /\ pc' = "reduce"
                    /\ half' = half \o <<Y>>
                    /\ full' = full
                    /\ points' = <<points[2], points[3]>>
              /\ (X >= Y /\ n > 3) =>
                    /\ pc' = "reduce"
                    /\ full' = full \o <<Y>>
                    /\ half' = half
                    /\ points' = [i \in 1..(n - 2) |->
                                     IF i <= n - 3 THEN points[i] ELSE points[n]]
      ]_vars

C5_Witness ==
    /\ pc = "reduce"
    /\ Len(points) > 3
    /\ RangeX(points) = RangeY(points)

C7_DegenerateIsEmpty ==
    (Len(series) >= 2) =>
        /\ raised = "none"
        /\ (Returned /\ R <= 1) => (full = <<>> /\ half = <<>> /\ counts = <<>>)

C7_Witness == pc = "done" /\ Len(series) >= 3 /\ R = 1 /\ raised = "none"

\* the positions of the run of equal samples around position i
Plateau(s, i) ==
    {j \in 1..Len(s) :
        \A k \in (IF j < i THEN j ELSE i)..(IF j < i THEN i ELSE j) : s[k] = s[i]}

C9_ExampleWithFirstSample ==
    (series = Example /\ Exhausted) => yielded = <<-2, 1, -3, 5, -1, 3, -4, 4>>

\* C9 amended: the worked example yields [1, -3, 5, -1, 3, -4, 4], without
\* its first sample -2.
C9_ExampleReversals ==
    (series = Example /\ Exhausted) => yielded = <<1, -3, 5, -1, 3, -4, 4>>

C9_Witness == series = Example /\ pc = "done" /\ R = 7

\* C10: whenever the reduction for a reversal is finished (the next reversal
\* is about to be read or the final drain is about to start) the ranges
\* between adjacent pending points strictly decrease from oldest to newest.
C10_PendingRangesDecrease ==
    (pc = "scan" \/ pc = "drain") =>
        \A i \in 1..(Len(points) - 2) :
            Abs(points[i + 1] - points[i + 2]) < Abs(points[i] - points[i + 1])

C10_Witness ==
    /\ pc = "scan"
    /\ Len(points) >= 3
    /\ \E i \in 1..(Len(points) - 1) : points[i] = points[i + 1]

====
